---------------------------- MODULE Spec2Model ----------------------------
(***************************************************************************)
(* Model of the app_data crate (src/src/app_data.rs): the resolution of    *)
(* an application's data directory by AppData::ensure_data_dir and         *)
(* AppData::get_file_path over a filesystem, a process environment and a   *)
(* current working directory.                                              *)
(*                                                                         *)
(* A path is a record [abs, segs]: whether it is absolute and its          *)
(* components (PathBuf compares by components, so a trailing separator is  *)
(* not represented).  The filesystem is the set of absolute component      *)
(* sequences that are directories (dirs) and regular files (files).        *)
(* Each call is a sequence of steps, one per system call, so that calls    *)
(* of several threads interleave.                                          *)
(***************************************************************************)
EXTENDS Naturals, Sequences, FiniteSets

\* ----------------------------------------------------------------- bounds
NumThreads == 2
MaxCalls == 2

Threads == 1..NumThreads

\* ------------------------------------------------------------------ paths
Abs(s) == [abs |-> TRUE, segs |-> s]
Rel(s) == [abs |-> FALSE, segs |-> s]
NoPath == Rel(<<>>)

\* PathBuf::join: an absolute argument replaces the receiver.
Join(p, q) == IF q.abs THEN q ELSE [abs |-> p.abs, segs |-> p.segs \o q.segs]

\* Path::ends_with: the components of q are a suffix of those of p.
EndsWith(p, q) ==
    /\ Len(q.segs) <= Len(p.segs)
    /\ SubSeq(p.segs, Len(p.segs) - Len(q.segs) + 1, Len(p.segs)) = q.segs
    /\ (q.abs => p = q)

\* Path::starts_with: the components of q are a prefix of those of p.
StartsWith(p, q) ==
    /\ p.abs = q.abs
    /\ Len(q.segs) <= Len(p.segs)
    /\ SubSeq(p.segs, 1, Len(q.segs)) = q.segs

Prefix(p, k) == [abs |-> p.abs, segs |-> SubSeq(p.segs, 1, k)]

\* ------------------------------------------------- results and error kinds
Ok(p) == [kind |-> "Ok", path |-> p, msg |-> ""]
EnvVarNotFound(name) == [kind |-> "EnvVarNotFound", path |-> NoPath, msg |-> name]
IoError(m) == [kind |-> "IoError", path |-> NoPath, msg |-> m]
CurrentDirError(m) == [kind |-> "CurrentDirError", path |-> NoPath, msg |-> m]
NoResult == [kind |-> "None", path |-> NoPath, msg |-> ""]

\* --------------------------------------------------------------- AppData
new(app_name) == [app_name |-> app_name, force_local |-> FALSE]
with_force_local(app_name, force_local) ==
    [app_name |-> app_name, force_local |-> force_local]

\* An environment variable: unset, or set to a value read as a path.
Unset == [set |-> FALSE, val |-> NoPath]
Set(p) == [set |-> TRUE, val |-> p]

\* Default for AppData: pkg is the run-time value of CARGO_PKG_NAME.
default(pkg) == IF ~pkg.set THEN with_force_local(Rel(<<>>), TRUE) ELSE new(pkg.val)

\* ---------------------------------------------------------- input domains
Cwd == Abs(<<"w">>)
Data == Rel(<<"data">>)
\* app_name is joined as a path: empty, a plain name, or an absolute path.
AppNames == {Rel(<<>>), Rel(<<"app">>), Abs(<<"o">>)}
PkgVals == {Unset, Set(Rel(<<"app">>))}
AppDatas ==
    {new(n) : n \in AppNames}
      \cup {with_force_local(n, b) : n \in AppNames, b \in BOOLEAN}
      \cup {default(p) : p \in PkgVals}
FileNames == {Rel(<<"f">>), Rel(<<"s", "f">>), Abs(<<"e">>)}
XdgVals == {Unset, Set(Abs(<<"x">>)), Set(Abs(<<"w", "data">>)),
            Set(Rel(<<"r">>)), Set(Rel(<<>>))}
HomeVals == {Unset, Set(Abs(<<"h">>))}
AppdataVals == {Unset, Set(Abs(<<"a">>))}
\* The environments of each build target; a variable the target never reads
\* is left unset.
Envs(o) ==
    CASE o = "linux" ->
           {[XDG_DATA_HOME |-> x, HOME |-> h, APPDATA |-> Unset] :
                x \in XdgVals, h \in HomeVals}
      [] o = "macos" ->
           {[XDG_DATA_HOME |-> Unset, HOME |-> h, APPDATA |-> Unset] : h \in HomeVals}
      [] OTHER ->
           {[XDG_DATA_HOME |-> Unset, HOME |-> Unset, APPDATA |-> a] : a \in AppdataVals}
Root == <<>>
SysRoots == {<<"x">>, <<"h">>, <<"a">>}

VARIABLES
    os,        \* build target: "linux", "macos" or "windows"
    env,       \* the process environment
    cwdOk,     \* whether current_dir() succeeds
    dirs,      \* absolute paths that are directories
    files,     \* absolute paths that are regular files
    denied,    \* directories in which mkdir is refused (EACCES)
    callers,   \* the threads that make calls
    methods,   \* the methods they call
    app,       \* the AppData value of each thread
    pc,        \* position of each thread in its call
    op,        \* the call in progress: method and file_name
    target,    \* root_path / sys_path of the call
    sysroot,   \* what get_sys_app_data_dir returned to the call
    mk,        \* position inside fs::create_dir_all
    dirres,    \* result of ensure_data_dir
    result,    \* result of the called method
    prev,      \* result of the thread's previous ensure_data_dir
    ncalls,    \* calls started by the thread
    made,      \* the directories the call has created
    envRead,   \* whether the call read a platform environment variable
    raced      \* whether the call met a directory created under its feet

vars == <<os, env, cwdOk, dirs, files, denied, callers, methods, app, pc, op, target, sysroot,
          mk,
          dirres, result, prev, ncalls, made, envRead, raced>>

\* ------------------------------------------------------------- filesystem
\* A relative path is resolved against the working directory.
Resolve(p) == IF p.abs THEN p.segs ELSE Cwd.segs \o p.segs

\* Path::exists: the empty path does not name anything.
Exists(p) == p # Rel(<<>>) /\ Resolve(p) \in dirs \cup files
IsDir(p) == p # Rel(<<>>) /\ Resolve(p) \in dirs

\* mkdir(2) on p: "Ok", or the error kind.
Mkdir(p) ==
    LET P == Resolve(p)
        missing == {k \in 0..(Len(P) - 1) : SubSeq(P, 1, k) \notin dirs}
        first == CHOOSE k \in missing : \A j \in missing : k <= j
    IN  IF p = Rel(<<>>) THEN "NotFound"
        ELSE IF missing # {}
             THEN IF SubSeq(P, 1, first) \in files THEN "NotADirectory" ELSE "NotFound"
        ELSE IF P \in dirs \cup files THEN "AlreadyExists"
        ELSE IF SubSeq(P, 1, Len(P) - 1) \in denied THEN "PermissionDenied"
        ELSE "Ok"

\* --------------------------------------------------- get_sys_app_data_dir
\* Variant: a missing variable falls back to a fixed directory.
get_sys_app_data_dir_fallback(o, e) ==
    CASE o = "windows" ->
           IF e.APPDATA.set THEN Ok(e.APPDATA.val) ELSE Ok(Abs(<<"tmp">>))
      [] o = "macos" ->
           IF e.HOME.set
           THEN Ok(Join(e.HOME.val, Rel(<<"Library", "Application Support">>)))
           ELSE Ok(Abs(<<"tmp">>))
      [] OTHER ->
           IF e.XDG_DATA_HOME.set THEN Ok(e.XDG_DATA_HOME.val)
           ELSE IF e.HOME.set THEN Ok(Join(e.HOME.val, Rel(<<".local", "share">>)))
           ELSE Ok(Abs(<<"tmp">>))

\* Variant: Linux consults HOME before XDG_DATA_HOME.
get_sys_app_data_dir_home_first(o, e) ==
    CASE o = "windows" ->
           IF e.APPDATA.set THEN Ok(e.APPDATA.val) ELSE EnvVarNotFound("APPDATA")
      [] o = "macos" ->
           IF e.HOME.set
           THEN Ok(Join(e.HOME.val, Rel(<<"Library", "Application Support">>)))
           ELSE EnvVarNotFound("HOME")
      [] OTHER ->
           IF e.HOME.set THEN Ok(Join(e.HOME.val, Rel(<<".local", "share">>)))
           ELSE IF e.XDG_DATA_HOME.set THEN Ok(e.XDG_DATA_HOME.val)
           ELSE EnvVarNotFound("XDG_DATA_HOME and HOME")

get_sys_app_data_dir(o, e) ==
    CASE o = "windows" ->
           IF e.APPDATA.set THEN Ok(e.APPDATA.val) ELSE EnvVarNotFound("APPDATA")
      [] o = "macos" ->
           IF e.HOME.set
           THEN Ok(Join(e.HOME.val, Rel(<<"Library", "Application Support">>)))
           ELSE EnvVarNotFound("HOME")
      [] OTHER ->
           IF e.XDG_DATA_HOME.set THEN Ok(e.XDG_DATA_HOME.val)
           ELSE IF e.HOME.set THEN Ok(Join(e.HOME.val, Rel(<<".local", "share">>)))
           ELSE EnvVarNotFound("XDG_DATA_HOME and HOME")

\* ------------------------------------------------------- fs::create_dir_all
\* create_dir_all treats a failed mkdir as success when the path is a
\* directory all the same (it was there, or somebody else just made it).
\* Variant: plain mkdir -p without the is_dir() pardon.
ToleratesNothing(q, e) == FALSE

Tolerates(q, e) == IsDir(q)

\* ------------------------------------------------------ ensure_data_dir
\* Variant: the working directory is taken for granted.
current_dir_assumed == Ok(Cwd)

current_dir == IF cwdOk THEN Ok(Cwd) ELSE CurrentDirError("NotFound")

\* root_path.exists(): an existing ./data wins over every other rule.
\* Variant: an existing ./data wins only in the forced-local mode.
ShortCircuitForced(t) == Exists(target[t]) /\ app[t].force_local

ShortCircuit(t) == Exists(target[t])

\* Variant: the flag is ignored.
ForceLocalIgnored(t) == FALSE

ForceLocal(t) == app[t].force_local

\* Variant: the application name is not appended.
SysPathNoName(root, a) == root

SysPath(root, a) == Join(root, a.app_name)

\* get_file_path: data_dir.join(file_name)
\* Variant: the file name is dropped.
FilePathDropped(data_dir, file_name) == data_dir

FilePath(data_dir, file_name) == Join(data_dir, file_name)

\* The call returns r from ensure_data_dir; get_file_path maps it on.
Finish(t, r) ==
    /\ pc' = [pc EXCEPT ![t] = "done"]
    /\ dirres' = [dirres EXCEPT ![t] = r]
    /\ result' = [result EXCEPT ![t] =
                    IF op[t].name = "get_file_path" /\ r.kind = "Ok"
                    THEN Ok(FilePath(r.path, op[t].file_name))
                    ELSE r]

NoOp == [name |-> "none", file_name |-> NoPath]
NoMk == [phase |-> "none", k |-> 0]
Ops == {[name |-> "ensure_data_dir", file_name |-> NoPath]}
         \cup {[name |-> "get_file_path", file_name |-> f] : f \in FileNames}

InitEnv(cwds, locals, pres) ==
    /\ os \in {"linux", "macos", "windows"}
    /\ env \in Envs(os)
    /\ cwdOk \in cwds
    /\ \E local \in locals, sysPre \in pres :
         /\ dirs = {Root}
                     \cup (IF cwdOk THEN {Cwd.segs} ELSE {})
                     \cup (IF cwdOk /\ local = "dir" THEN {Resolve(Data)} ELSE {})
                     \cup (IF sysPre THEN SysRoots ELSE {})
         /\ files = IF cwdOk /\ local = "file" THEN {Resolve(Data)} ELSE {}
    /\ denied \in {{}, {Root}, {Cwd.segs}}

InitThreads ==
    /\ pc = [t \in Threads |-> "idle"]
    /\ op = [t \in Threads |-> NoOp]
    /\ target = [t \in Threads |-> NoPath]
    /\ sysroot = [t \in Threads |-> NoResult]
    /\ mk = [t \in Threads |-> NoMk]
    /\ dirres = [t \in Threads |-> NoResult]
    /\ result = [t \in Threads |-> NoResult]
    /\ prev = [t \in Threads |-> NoResult]
    /\ ncalls = [t \in Threads |-> 0]
    /\ made = [t \in Threads |-> {}]
    /\ envRead = [t \in Threads |-> FALSE]
    /\ raced = [t \in Threads |-> FALSE]

\* One caller: calls follow one another.
Init ==
    /\ InitEnv(BOOLEAN, {"none", "dir", "file"}, BOOLEAN)
    /\ callers = {1}
    /\ methods = Ops
    /\ \E a \in AppDatas : app = [t \in Threads |-> a]
    /\ InitThreads

\* Every thread calls ensure_data_dir on a clone of one AppData, in a working
\* directory without ./data and with no platform root made yet: the steps of
\* the calls interleave.
InitConc ==
    /\ InitEnv({TRUE}, {"none"}, {FALSE})
    /\ callers = Threads
    /\ methods = {o \in Ops : o.name = "ensure_data_dir"}
    /\ \E a \in AppDatas : app = [t \in Threads |-> a]
    /\ InitThreads

\* A thread enters ensure_data_dir or get_file_path.
Call(t) ==
    /\ t \in callers
    /\ pc[t] \in {"idle", "done"}
    /\ ncalls[t] < MaxCalls
    /\ \E o \in methods : op' = [op EXCEPT ![t] = o]
    /\ pc' = [pc EXCEPT ![t] = "cwd"]
    /\ ncalls' = [ncalls EXCEPT ![t] = @ + 1]
    /\ prev' = [prev EXCEPT ![t] = dirres[t]]
    /\ dirres' = [dirres EXCEPT ![t] = NoResult]
    /\ result' = [result EXCEPT ![t] = NoResult]
    /\ target' = [target EXCEPT ![t] = NoPath]
    /\ sysroot' = [sysroot EXCEPT ![t] = NoResult]
    /\ mk' = [mk EXCEPT ![t] = NoMk]
    /\ made' = [made EXCEPT ![t] = {}]
    /\ envRead' = [envRead EXCEPT ![t] = FALSE]
    /\ raced' = [raced EXCEPT ![t] = FALSE]
    /\ UNCHANGED <<os, env, cwdOk, dirs, files, denied, callers, methods, app>>

\* let path = current_dir()...?; let root_path = path.join("data");
GetCwd(t) ==
    /\ pc[t] = "cwd"
    /\ IF current_dir.kind = "Ok"
       THEN /\ target' = [target EXCEPT ![t] = Join(current_dir.path, Data)]
            /\ pc' = [pc EXCEPT ![t] = "check_local"]
            /\ UNCHANGED <<dirres, result>>
       ELSE /\ Finish(t, current_dir)
            /\ UNCHANGED target
    /\ UNCHANGED <<os, env, cwdOk, dirs, files, denied, callers, methods, app, op, mk,
                   sysroot, prev, ncalls, made, envRead, raced>>

\* if root_path.exists() { return } if self.force_local { create_dir_all .. }
CheckLocal(t) ==
    /\ pc[t] = "check_local"
    /\ IF ShortCircuit(t)
       THEN /\ Finish(t, Ok(target[t]))
            /\ UNCHANGED mk
       ELSE /\ pc' = [pc EXCEPT ![t] = IF ForceLocal(t) THEN "mkdir" ELSE "env"]
            /\ mk' = [mk EXCEPT ![t] =
                        IF ForceLocal(t)
                        THEN [phase |-> "down", k |-> Len(target[t].segs)]
                        ELSE NoMk]
            /\ UNCHANGED <<dirres, result>>
    /\ UNCHANGED <<os, env, cwdOk, dirs, files, denied, callers, methods, app, op, target,
                   sysroot, prev, ncalls, made, envRead, raced>>

\* let sys_path = get_sys_app_data_dir()?.join(&self.app_name);
ReadEnv(t) ==
    /\ pc[t] = "env"
    /\ envRead' = [envRead EXCEPT ![t] = TRUE]
    /\ sysroot' = [sysroot EXCEPT ![t] = get_sys_app_data_dir(os, env)]
    /\ LET r == get_sys_app_data_dir(os, env)
       IN  IF r.kind = "Ok"
           THEN /\ target' = [target EXCEPT ![t] = SysPath(r.path, app[t])]
                /\ pc' = [pc EXCEPT ![t] = "check_sys"]
                /\ UNCHANGED <<dirres, result>>
           ELSE /\ Finish(t, r)
                /\ UNCHANGED target
    /\ UNCHANGED <<os, env, cwdOk, dirs, files, denied, callers, methods, app, op, mk,
                   prev, ncalls, made, raced>>

\* if !sys_path.exists() { create_dir_all .. } Ok(sys_path)
CheckSys(t) ==
    /\ pc[t] = "check_sys"
    /\ IF ~Exists(target[t])
       THEN /\ pc' = [pc EXCEPT ![t] = "mkdir"]
            /\ mk' = [mk EXCEPT ![t] = [phase |-> "down", k |-> Len(target[t].segs)]]
            /\ UNCHANGED <<dirres, result>>
       ELSE /\ Finish(t, Ok(target[t]))
            /\ UNCHANGED mk
    /\ UNCHANGED <<os, env, cwdOk, dirs, files, denied, callers, methods, app, op, target,
                   sysroot, prev, ncalls, made, envRead, raced>>

\* One mkdir of fs::create_dir_all(target): it tries the path itself, walks
\* down to the first ancestor it can create while mkdir reports NotFound, and
\* then creates the components on the way back up.  A failed mkdir and the
\* is_dir() that pardons it are one step: no directory is ever removed.
MkdirStep(t) ==
    /\ pc[t] = "mkdir"
    /\ LET p == target[t]
           k == mk[t].k
           q == Prefix(p, k)
           e == IF q = Rel(<<>>) THEN "Empty" ELSE Mkdir(q)
           ok == e \in {"Ok", "Empty"} \/ (e # "NotFound" /\ Tolerates(q, e))
           okUp == e = "Ok" \/ Tolerates(q, e)
           advance == IF mk[t].phase = "down" THEN ok ELSE okUp
           descend == mk[t].phase = "down" /\ e = "NotFound" /\ k > 0
       IN  /\ dirs' = IF e = "Ok" THEN dirs \cup {Resolve(q)} ELSE dirs
           /\ made' = [made EXCEPT ![t] = IF e = "Ok" THEN @ \cup {Resolve(q)} ELSE @]
           /\ raced' = [raced EXCEPT ![t] = @ \/ (advance /\ e \notin {"Ok", "Empty"})]
           /\ IF advance
              THEN IF k = Len(p.segs)
                   THEN /\ Finish(t, Ok(p))
                        /\ mk' = [mk EXCEPT ![t] = NoMk]
                   ELSE /\ mk' = [mk EXCEPT ![t] = [phase |-> "up", k |-> k + 1]]
                        /\ UNCHANGED <<pc, dirres, result>>
              ELSE IF descend
                   THEN /\ mk' = [mk EXCEPT ![t] = [phase |-> "down", k |-> k - 1]]
                        /\ UNCHANGED <<pc, dirres, result>>
                   ELSE /\ Finish(t, IoError(e))
                        /\ mk' = [mk EXCEPT ![t] = NoMk]
    /\ UNCHANGED <<os, env, cwdOk, files, denied, callers, methods, app, op, target,
                   sysroot, prev, ncalls, envRead>>

Next ==
    \E t \in Threads :
        \/ Call(t)
        \/ GetCwd(t)
        \/ CheckLocal(t)
        \/ ReadEnv(t)
        \/ CheckSys(t)
        \/ MkdirStep(t)

Spec == Init /\ [][Next]_vars
SpecConc == InitConc /\ [][Next]_vars

\* ------------------------------------------------------------ well-formedness
TypeOK ==
    /\ \A d \in dirs \cup files : d = Root \/ SubSeq(d, 1, Len(d) - 1) \in dirs
    /\ dirs \cap files = {}
    /\ \A t \in Threads : pc[t] \in {"idle", "cwd", "check_local", "env",
                                      "check_sys", "mkdir", "done"}

\* ------------------------------------------------------------------ claims
LocalData == Join(Cwd, Data)
Done(t) == t \in callers /\ pc[t] = "done"

\* With one caller, what existed when the call of t started is what exists
\* now and the call did not make.
ExistedAtCall(t, p) == Resolve(p) \in (dirs \ made[t]) \cup files

\* The platform's variable(s) are set / the platform root they stand for.
PlatformVarsSet ==
    CASE os = "windows" -> env.APPDATA.set
      [] os = "macos" -> env.HOME.set
      [] OTHER -> env.XDG_DATA_HOME.set \/ env.HOME.set
MissingName ==
    CASE os = "windows" -> "APPDATA"
      [] os = "macos" -> "HOME"
      [] OTHER -> "XDG_DATA_HOME and HOME"
PlatformBase ==
    CASE os = "windows" -> env.APPDATA.val
      [] os = "macos" ->
           [abs |-> env.HOME.val.abs,
            segs |-> env.HOME.val.segs \o <<"Library", "Application Support">>]
      [] OTHER ->
           IF env.XDG_DATA_HOME.set THEN env.XDG_DATA_HOME.val
           ELSE [abs |-> env.HOME.val.abs,
                 segs |-> env.HOME.val.segs \o <<".local", "share">>]
Prefixes(P) == {SubSeq(P, 1, k) : k \in 0..Len(P)}

\* C1 -- Precedence: if <cwd>/data exists when ensure_data_dir is called, the
\* call returns Ok(<cwd>/data) whatever app_name, force_local and the
\* environment are, reads no platform variable and creates no directory.
C1_Precedence ==
    \A t \in Threads :
        Done(t) /\ cwdOk /\ ExistedAtCall(t, LocalData)
            => /\ dirres[t] = Ok(LocalData)
               /\ ~envRead[t]
               /\ made[t] = {}

\* C1 happens: a call without force_local, with platform variables set, found
\* ./data and returned it.
C1_Witness ==
    \E t \in Threads :
        /\ Done(t) /\ cwdOk /\ ExistedAtCall(t, LocalData)
        /\ ~app[t].force_local /\ PlatformVarsSet
        /\ op[t].name = "ensure_data_dir"
        /\ dirres[t] = Ok(LocalData)

\* C2 -- Idempotence: a successful ensure_data_dir followed by a second call,
\* with nothing changed but by the first call, returns the identical path.
C2_Idempotent ==
    \A t \in Threads :
        Done(t) /\ prev[t].kind = "Ok" => dirres[t] = prev[t]

\* C3 -- Whenever ensure_data_dir returns Ok(p), p is absolute and is an
\* existing directory when the call returns.
C3_AbsoluteDirectory ==
    \A t \in Threads :
        Done(t) /\ dirres[t].kind = "Ok"
            => dirres[t].path.abs /\ IsDir(dirres[t].path)

C5_Case(t) ==
    /\ Done(t) /\ ~app[t].force_local /\ cwdOk
    /\ ~ExistedAtCall(t, LocalData)
    /\ PlatformVarsSet
C5_Expected(t) ==
    [abs |-> PlatformBase.abs, segs |-> PlatformBase.segs \o app[t].app_name.segs]

C6_Original ==
    \A t \in Threads :
        Done(t) /\ ~app[t].force_local /\ ~PlatformVarsSet
            => dirres[t] = EnvVarNotFound(MissingName) /\ made[t] = {}

\* C6 amended -- the same, for the calls made where the working directory is
\* obtainable and <cwd>/data does not exist.
C6_MissingVariable ==
    \A t \in Threads :
        (Done(t) /\ ~app[t].force_local /\ ~PlatformVarsSet
           /\ cwdOk /\ ~ExistedAtCall(t, LocalData))
            => /\ dirres[t] = EnvVarNotFound(MissingName)
               /\ result[t] = dirres[t]
               /\ made[t] = {}

\* C6 happens: on Linux with XDG_DATA_HOME and HOME unset the call failed.
C6_Witness ==
    \E t \in Threads :
        /\ Done(t) /\ ~app[t].force_local /\ os = "linux" /\ ~PlatformVarsSet
        /\ cwdOk /\ ~ExistedAtCall(t, LocalData)
        /\ dirres[t].kind = "EnvVarNotFound"

\* The file name put after the data directory, component by component.
C7_Appended(t) ==
    [abs |-> dirres[t].path.abs,
     segs |-> dirres[t].path.segs \o op[t].file_name.segs]
C7_Case(t) == Done(t) /\ op[t].name = "get_file_path"

C8_RaceTolerated ==
    \A t \in Threads :
        Done(t) => ~(dirres[t].kind = "IoError" /\ IsDir(target[t]))

\* C8 happens: a call's mkdir found the directory made under its feet by
\* another caller, and the call returned Ok with that directory.
C8_Witness ==
    \E t \in Threads :
        /\ Done(t) /\ raced[t]
        /\ dirres[t] = Ok(target[t])
        /\ \E u \in Threads \ {t} : Resolve(target[t]) \in made[u]

\* C9 -- On Linux, get_sys_app_data_dir returns XDG_DATA_HOME verbatim when it
\* is set (whatever HOME is), HOME/.local/share when only HOME is set, and
\* EnvVarNotFound("XDG_DATA_HOME and HOME") only when both are unset; the step
\* leaves the filesystem as it is.
C9_LinuxRoot ==
    [][\A t \in Threads :
          os = "linux" /\ pc[t] = "env" /\ pc'[t] # "env"
            => /\ env.XDG_DATA_HOME.set => sysroot'[t] = Ok(env.XDG_DATA_HOME.val)
               /\ ~env.XDG_DATA_HOME.set /\ env.HOME.set
                     => sysroot'[t] =
                          Ok([abs |-> env.HOME.val.abs,
                              segs |-> env.HOME.val.segs \o <<".local", "share">>])
               /\ sysroot'[t].kind # "Ok"
                     <=> ~env.XDG_DATA_HOME.set /\ ~env.HOME.set
               /\ sysroot'[t].kind # "Ok"
                     => sysroot'[t] = EnvVarNotFound("XDG_DATA_HOME and HOME")
               /\ dirs' = dirs /\ files' = files]_vars

\* C9 happens: with both variables set the call got XDG_DATA_HOME.
C9_Witness ==
    \E t \in Threads :
        /\ os = "linux" /\ env.XDG_DATA_HOME.set /\ env.HOME.set
        /\ sysroot[t] = Ok(env.XDG_DATA_HOME.val)

\* C10 -- If the working directory cannot be determined, ensure_data_dir and
\* get_file_path fail with CurrentDirError for every AppData, before any
\* existence check, environment read or mkdir: no fallback, nothing created.
C10_NoCurrentDir ==
    \A t \in Threads :
        Done(t) /\ ~cwdOk
            => /\ dirres[t].kind = "CurrentDirError"
               /\ result[t] = dirres[t]
               /\ target[t] = NoPath
               /\ ~envRead[t]
               /\ made[t] = {}

\* C10 happens: get_file_path without force_local, with the platform
\* variables set, failed for want of a working directory.
C10_Witness ==
    \E t \in Threads :
        /\ Done(t) /\ ~cwdOk /\ ~app[t].force_local /\ PlatformVarsSet
        /\ op[t].name = "get_file_path"
        /\ result[t].kind = "CurrentDirError"

=============================================================================
